---- MODULE Spec2Model ----
(***************************************************************************)
(* State-machine model of script.js (Barbearia Lenhador): theme            *)
(* preference, mobile navigation, header scroll behaviour and the          *)
(* open/closed status indicator.  The script is one IIFE run at page load  *)
(* (PageLoad) followed by event handlers run one at a time on the UI       *)
(* thread (one action per event).                                          *)
(***************************************************************************)
EXTENDS Integers, Sequences, FiniteSets, TLC

VARIABLES
    \* ---- host / document features (fixed during a behaviour) ----
    hasStorage,      \* localStorage is usable
    hasMatchMedia,   \* window.matchMedia exists
    hasThemeToggle,  \* #theme-toggle exists
    hasHeader,       \* #header exists
    hasNavMenu,      \* #nav-menu exists
    hasNavToggle,    \* #nav-toggle exists
    hasNavClose,     \* #nav-close exists
    hasStatus,       \* .status-indicator exists
    numRows,         \* number of .hours-item rows in the document
    \* ---- script life cycle ----
    loaded,          \* the IIFE has run to its end (listeners registered)
    error,           \* an uncaught exception has been raised
    loads,           \* number of page loads (sessions) so far
    \* ---- theme ----
    storage,         \* localStorage[THEME_KEY]: "unset", "light" or "dark"
    lightMode,       \* body.classList contains 'light-mode'
    osLight,         \* (prefers-color-scheme: light) matches
    storedAtLoad,    \* history: value of storage when the current load began
    userChoice,      \* history: theme written by the last toggleTheme since storage was last cleared
    toggleRun,       \* history: light-mode flag before each toggle of the current run of consecutive toggles (last two)
    storeAtToggle,   \* history: value of storage when the last toggleTheme began ("none": no toggle yet)
    \* ---- mobile navigation ----
    menuActive,      \* navMenu.classList contains 'active'
    bodyOverflow,    \* document.body.style.overflow
    lastNavEvent,    \* history: the last click or key event the navigation listeners handled
    \* ---- header scroll ----
    scrollY,         \* window.scrollY
    lastScrollY,
    ticking,
    rafQueued,       \* number of updateHeader callbacks queued with requestAnimationFrame
    scrolled,        \* header.classList contains 'scrolled'
    headerRuns,      \* history: number of updateHeader runs in the last animation frame
    scrollHist,      \* history: "none": no scroll event since load; "stale": a scroll event
                     \* not yet followed by an updateHeader run; "fresh": updateHeader ran since
    \* ---- open/closed status ----
    day,             \* wall clock: weekday, 0 = Sunday
    currentTime,     \* wall clock: minutes since midnight
    isOpen,          \* isOpen as computed by the last updateOpenStatus
    todayIndex,      \* todayIndex as computed by the last updateOpenStatus (-1: not run)
    statusOpen,      \* statusIndicator.classList contains 'open'
    statusClosed,    \* statusIndicator.classList contains 'closed'
    statusText,      \* statusIndicator.textContent
    today,           \* set of row indexes whose classList contains 'today'
    runsAtReading    \* history: number of updateOpenStatus runs at the current clock reading

envVars == <<hasStorage, hasMatchMedia, hasThemeToggle, hasHeader, hasNavMenu,
             hasNavToggle, hasNavClose, hasStatus, numRows>>
themeVars == <<storage, lightMode, osLight, storedAtLoad, userChoice, toggleRun,
               storeAtToggle>>
navVars == <<menuActive, bodyOverflow, lastNavEvent>>
scrollVars == <<scrollY, lastScrollY, ticking, rafQueued, scrolled, headerRuns, scrollHist>>
clockVars == <<day, currentTime>>
statusVars == <<isOpen, todayIndex, statusOpen, statusClosed, statusText, today,
                runsAtReading>>
vars == <<envVars, loaded, error, loads, themeVars, navVars, scrollVars,
          clockVars, statusVars>>

----------------------------------------------------------------------------
\* Bounds of the model

\* page loads (sessions) explored
MaxLoads == 3
\* scroll positions explored on each side of the 'scrolled' threshold
ScrollSpan == 1
\* largest number of minutes the clock advances between two timer callbacks
MaxAdvance == 1
\* times of day, evenly spaced from midnight, at which a page load is explored
LoadsPerDay == 3
\* updateOpenStatus runs explored at one clock reading
MaxRuns == 3
\* animation-frame callbacks that may be queued at once
MaxQueued == 2

----------------------------------------------------------------------------
\* Theme preference (script.js 23-76)

Preference == {"light", "dark"}
unset == "unset"

getSavedThemeIgnoringStore(saved, mm, os) ==
    IF mm /\ os THEN "light" ELSE "dark"

getSavedThemeDefaultLight(saved, mm, os) ==
    IF saved # unset THEN saved
    ELSE IF mm THEN (IF os THEN "light" ELSE "dark")
    ELSE "light"

\* getSavedTheme(): the stored theme, else the OS signal, else 'dark'
getSavedTheme(saved, mm, os) ==
    IF saved # unset THEN saved
    ELSE IF mm /\ os THEN "light"
    ELSE "dark"

applyThemeNoStore(theme) ==
    /\ lightMode' = (theme = "light")
    /\ UNCHANGED storage

\* applyTheme(theme): set or clear the light-mode flag, then store the theme
applyTheme(theme) ==
    /\ lightMode' = (theme = "light")
    /\ storage' = theme

newThemeAlwaysLight(light) == "light"

newThemeFromStore(light) ==
    IF storage = "light" THEN "dark" ELSE "light"

\* newTheme of toggleTheme(): the opposite of the applied theme
newTheme(light) ==
    LET currentTheme == IF light THEN "light" ELSE "dark"
    IN  IF currentTheme = "light" THEN "dark" ELSE "light"

changeListenerUnguarded(matches) ==
    applyTheme(IF matches THEN "light" ELSE "dark")

\* the matchMedia 'change' listener: re-apply only while nothing is stored
changeListener(matches) ==
    IF storage = unset
    THEN applyTheme(IF matches THEN "light" ELSE "dark")
    ELSE UNCHANGED <<lightMode, storage>>

----------------------------------------------------------------------------
\* Mobile navigation (script.js 85-127).  The handlers of one event run one
\* after the other; each is a function of the navigation state
\* [active, overflow, err], err recording an uncaught TypeError.

NavState == [active |-> menuActive, overflow |-> bodyOverflow, err |-> FALSE]

\* openMenu(): navMenu.classList.add throws when #nav-menu is absent
openMenu(n) ==
    IF hasNavMenu
    THEN [n EXCEPT !.active = TRUE, !.overflow = "hidden"]
    ELSE [n EXCEPT !.err = TRUE]

\* closeMenu()
closeMenu(n) ==
    IF hasNavMenu
    THEN [n EXCEPT !.active = FALSE, !.overflow = ""]
    ELSE [n EXCEPT !.err = TRUE]

documentClickIgnoringToggle(n, inMenu, inToggle) ==
    IF ~hasNavMenu THEN [n EXCEPT !.err = TRUE]
    ELSE IF n.active /\ ~inMenu THEN closeMenu(n) ELSE n

\* the document-level click listener; inMenu, inToggle: navMenu, navToggle
\* contains e.target.  The && chain is evaluated left to right.
documentClick(n, inMenu, inToggle) ==
    IF ~hasNavMenu THEN [n EXCEPT !.err = TRUE]
    ELSE IF n.active /\ ~inMenu
         THEN IF ~hasNavToggle THEN [n EXCEPT !.err = TRUE]
              ELSE IF ~inToggle THEN closeMenu(n) ELSE n
         ELSE n

\* the document-level keydown listener
documentKeydown(n, key) ==
    IF key = "Escape"
    THEN IF ~hasNavMenu THEN [n EXCEPT !.err = TRUE]
         ELSE IF n.active THEN closeMenu(n) ELSE n
    ELSE n

\* the smooth-scroll click listener of an a[href^="#"]: header.offsetHeight
\* throws when the target exists and #header is absent
anchorClick(n, targetExists) ==
    IF targetExists /\ ~hasHeader THEN [n EXCEPT !.err = TRUE] ELSE n

SetNav(n) ==
    /\ menuActive' = n.active
    /\ bodyOverflow' = n.overflow
    /\ error' = (error \/ n.err)

----------------------------------------------------------------------------
\* Header scroll behaviour (script.js 133-155)

ScrollThreshold == 50
ScrollPositions == (ScrollThreshold - ScrollSpan)..(ScrollThreshold + ScrollSpan)

requestsFrameAlways(tick) == TRUE

\* the scroll listener's test: request a frame only when none is pending
requestsFrame(tick) == ~tick

updateHeaderKeepsTicking ==
    IF hasHeader
    THEN /\ scrolled' = (scrollY > ScrollThreshold)
         /\ lastScrollY' = scrollY
         /\ UNCHANGED <<ticking, error>>
    ELSE /\ error' = TRUE
         /\ UNCHANGED <<scrolled, lastScrollY, ticking>>

\* updateHeader(): classList.add/remove throws when #header is absent, before
\* lastScrollY and ticking are assigned
updateHeader ==
    IF hasHeader
    THEN /\ scrolled' = (scrollY > ScrollThreshold)
         /\ lastScrollY' = scrollY
         /\ ticking' = FALSE
         /\ UNCHANGED error
    ELSE /\ error' = TRUE
         /\ UNCHANGED <<scrolled, lastScrollY, ticking>>

----------------------------------------------------------------------------
\* Open/closed status (script.js 261-316)

NumDays == 7
Weekdays == 0..(NumDays - 1)
MinutesPerDay == 24 * 60

null == [closed |-> TRUE]

scheduleMondayOpen ==
    0 :> null @@
    1 :> [open |-> 9 * 60, close |-> 19 * 60] @@
    2 :> [open |-> 9 * 60, close |-> 19 * 60] @@
    3 :> [open |-> 9 * 60, close |-> 19 * 60] @@
    4 :> [open |-> 9 * 60, close |-> 17 * 60] @@
    5 :> [open |-> 9 * 60, close |-> 19 * 60] @@
    6 :> [open |-> 9 * 60, close |-> 17 * 60]

scheduleThursdayLate ==
    0 :> null @@
    1 :> null @@
    2 :> [open |-> 9 * 60, close |-> 19 * 60] @@
    3 :> [open |-> 9 * 60, close |-> 19 * 60] @@
    4 :> [open |-> 9 * 60, close |-> 19 * 60] @@
    5 :> [open |-> 9 * 60, close |-> 19 * 60] @@
    6 :> [open |-> 9 * 60, close |-> 17 * 60]

\* the schedule object of updateOpenStatus
schedule ==
    0 :> null @@
    1 :> null @@
    2 :> [open |-> 9 * 60, close |-> 19 * 60] @@
    3 :> [open |-> 9 * 60, close |-> 19 * 60] @@
    4 :> [open |-> 9 * 60, close |-> 17 * 60] @@
    5 :> [open |-> 9 * 60, close |-> 19 * 60] @@
    6 :> [open |-> 9 * 60, close |-> 17 * 60]

computeIsOpenCloseInclusive(d, t) ==
    LET todaySchedule == schedule[d]
    IN  IF todaySchedule # null
        THEN t >= todaySchedule.open /\ t <= todaySchedule.close
        ELSE FALSE

\* isOpen of updateOpenStatus for weekday d and minute t
computeIsOpen(d, t) ==
    LET todaySchedule == schedule[d]
    IN  IF todaySchedule # null
        THEN t >= todaySchedule.open /\ t < todaySchedule.close
        ELSE FALSE

dayMappingSundayFirst == <<0, 1, 2, 3, 4, 5, 6>>

\* dayMapping[day], a JS array indexed from 0 (here from 1)
dayMapping == <<6, 0, 1, 2, 3, 4, 5>>

Rows == 0..(numRows - 1)

highlightTodayKeepingMarks(marked, idx) ==
    marked \cup {index \in Rows : index = idx}

\* hoursItems.forEach: remove 'today' from every row, add it to row todayIndex
highlightToday(marked, idx) ==
    (marked \ Rows) \cup {index \in Rows : index = idx}

StatusTexts == {"", "Aberto agora", "Fechado"}

updateOpenStatusToggling(d, t) ==
    LET open == computeIsOpen(d, t)
        idx == dayMapping[d + 1]
    IN  /\ isOpen' = open
        /\ todayIndex' = idx
        /\ IF hasStatus
           THEN /\ statusOpen' = ~statusOpen
                /\ statusClosed' = ~statusClosed
                /\ statusText' = (IF open THEN "Aberto agora" ELSE "Fechado")
           ELSE UNCHANGED <<statusOpen, statusClosed, statusText>>
        /\ today' = highlightToday(today, idx)

updateOpenStatusAddOnly(d, t) ==
    LET open == computeIsOpen(d, t)
        idx == dayMapping[d + 1]
    IN  /\ isOpen' = open
        /\ todayIndex' = idx
        /\ IF hasStatus
           THEN /\ statusOpen' = (statusOpen \/ open)
                /\ statusClosed' = (statusClosed \/ ~open)
                /\ statusText' = (IF open THEN "Aberto agora" ELSE "Fechado")
           ELSE UNCHANGED <<statusOpen, statusClosed, statusText>>
        /\ today' = highlightToday(today, idx)

\* updateOpenStatus() run when the clock reads weekday d, minute t
updateOpenStatus(d, t) ==
    LET open == computeIsOpen(d, t)
        idx == dayMapping[d + 1]
    IN  /\ isOpen' = open
        /\ todayIndex' = idx
        /\ IF hasStatus
           THEN /\ statusOpen' = open
                /\ statusClosed' = ~open
                /\ statusText' = (IF open THEN "Aberto agora" ELSE "Fechado")
           ELSE UNCHANGED <<statusOpen, statusClosed, statusText>>
        /\ today' = highlightToday(today, idx)

----------------------------------------------------------------------------
\* Page load: the IIFE from its first to its last statement

\* applyTheme(getSavedTheme()) throws at localStorage.getItem when storage is
\* unusable, and nothing after it runs: no listener is registered.
PageLoad ==
    /\ ~loaded /\ ~error
    /\ loads' = loads + 1
    /\ storedAtLoad' = storage
    /\ UNCHANGED <<envVars, osLight, userChoice, toggleRun, storeAtToggle, navVars,
                   scrollY, rafQueued, scrolled, headerRuns, scrollHist, clockVars>>
    /\ IF hasStorage
       THEN /\ applyTheme(getSavedTheme(storage, hasMatchMedia, osLight))
            /\ lastScrollY' = scrollY
            /\ ticking' = FALSE
            /\ updateOpenStatus(day, currentTime)
            /\ runsAtReading' = 1
            /\ loaded' = TRUE
            /\ UNCHANGED error
       ELSE /\ error' = TRUE
            /\ UNCHANGED <<loaded, lightMode, storage, lastScrollY, ticking, statusVars>>

\* The user reloads the page (a new session): the document is parsed afresh,
\* localStorage and the OS signal are retained.
Reload ==
    /\ loaded \/ error
    /\ loads < MaxLoads
    /\ loaded' = FALSE
    /\ error' = FALSE
    /\ lightMode' = FALSE
    /\ storedAtLoad' = storage
    /\ toggleRun' = <<>>
    /\ storeAtToggle' = "none"
    /\ menuActive' = FALSE
    /\ bodyOverflow' = ""
    /\ lastNavEvent' = "none"
    /\ lastScrollY' = 0
    /\ ticking' = FALSE
    /\ rafQueued' = 0
    /\ scrolled' = FALSE
    /\ headerRuns' = 0
    /\ scrollHist' = "none"
    /\ isOpen' = FALSE
    /\ todayIndex' = -1
    /\ statusOpen' = FALSE
    /\ statusClosed' = FALSE
    /\ statusText' = ""
    /\ today' = {}
    /\ runsAtReading' = 0
    /\ UNCHANGED <<envVars, loads, storage, osLight, userChoice, scrollY, clockVars>>

----------------------------------------------------------------------------
\* Events after load

\* click on #theme-toggle: toggleTheme(), then the document click listener
\* (the button lies inside or outside #nav-menu)
ClickThemeToggle ==
    /\ loaded /\ hasThemeToggle
    /\ applyTheme(newTheme(lightMode))
    /\ userChoice' = newTheme(lightMode)
    /\ toggleRun' = IF Len(toggleRun) = 2
                    THEN <<toggleRun[2], lightMode>>
                    ELSE Append(toggleRun, lightMode)
    /\ storeAtToggle' = storage
    /\ \E inMenu \in BOOLEAN :
          /\ SetNav(documentClick(NavState, inMenu, FALSE))
          /\ lastNavEvent' = (IF inMenu THEN "inside" ELSE "outside")
    /\ UNCHANGED <<envVars, loaded, loads, osLight, storedAtLoad, scrollVars,
                   clockVars, statusVars>>

\* the OS colour scheme changes; the change listener runs if it was registered
OsSchemeChange ==
    /\ osLight' = ~osLight
    /\ IF loaded /\ hasMatchMedia
       THEN changeListener(~osLight)
       ELSE UNCHANGED <<lightMode, storage>>
    /\ toggleRun' = <<>>
    /\ UNCHANGED <<envVars, loaded, error, loads, storedAtLoad, userChoice,
                   storeAtToggle, navVars, scrollVars, clockVars, statusVars>>

\* the user clears the site's storage
ClearStorage ==
    /\ storage # unset
    /\ storage' = unset
    /\ userChoice' = "none"
    /\ toggleRun' = <<>>
    /\ UNCHANGED <<envVars, loaded, error, loads, lightMode, osLight, storedAtLoad,
                   storeAtToggle, navVars, scrollVars, clockVars, statusVars>>

\* another page of the same origin (running this script) writes the theme key
StorageChangedElsewhere ==
    /\ \E p \in Preference : p # storage /\ storage' = p
    /\ userChoice' = "none"
    /\ UNCHANGED <<envVars, loaded, error, loads, lightMode, osLight, storedAtLoad,
                   toggleRun, storeAtToggle, navVars, scrollVars, clockVars, statusVars>>

NavOnly ==
    UNCHANGED <<envVars, loaded, loads, themeVars, scrollVars, clockVars, statusVars>>

\* click on the hamburger: openMenu(), then the document click listener
ClickNavToggle ==
    /\ loaded /\ hasNavToggle
    /\ SetNav(documentClick(openMenu(NavState), FALSE, TRUE))
    /\ lastNavEvent' = "toggle"
    /\ NavOnly

\* click on the X button (inside #nav-menu): closeMenu(), then the document listener
ClickNavClose ==
    /\ loaded /\ hasNavClose
    /\ SetNav(documentClick(closeMenu(NavState), TRUE, FALSE))
    /\ lastNavEvent' = "close"
    /\ NavOnly

\* click on a .nav-link: closeMenu(), the smooth-scroll listener when the link
\* is a[href^="#"], then the document listener
ClickNavLink ==
    /\ loaded
    /\ \E targetExists \in BOOLEAN :
          SetNav(documentClick(anchorClick(closeMenu(NavState), targetExists), TRUE, FALSE))
    /\ lastNavEvent' = "link"
    /\ NavOnly

\* click on anything else, inside or outside #nav-menu
ClickElsewhere ==
    /\ loaded
    /\ \E inMenu \in BOOLEAN :
          /\ SetNav(documentClick(NavState, inMenu, FALSE))
          /\ lastNavEvent' = (IF inMenu THEN "inside" ELSE "outside")
    /\ NavOnly

KeyDown ==
    /\ loaded
    /\ \E key \in {"Escape", "Enter"} :
          /\ SetNav(documentKeydown(NavState, key))
          /\ lastNavEvent' = key
    /\ NavOnly

\* the page scrolls to position y: the scroll listener requests one animation
\* frame unless one is pending (highlightNavLink and handleScrollReveal only
\* touch classes that are not modelled)
Scroll ==
    /\ loaded
    /\ \E y \in ScrollPositions : y # scrollY /\ scrollY' = y
    /\ IF requestsFrame(ticking)
       THEN /\ rafQueued < MaxQueued
            /\ rafQueued' = rafQueued + 1
            /\ ticking' = TRUE
       ELSE UNCHANGED <<rafQueued, ticking>>
    /\ scrollHist' = "stale"
    /\ UNCHANGED <<envVars, loaded, error, loads, themeVars, navVars, lastScrollY,
                   scrolled, headerRuns, clockVars, statusVars>>

\* the browser runs every animation-frame callback queued before the frame;
\* the runs of one frame read the same scrollY
AnimationFrame ==
    /\ loaded /\ rafQueued > 0
    /\ headerRuns' = rafQueued
    /\ rafQueued' = 0
    /\ updateHeader
    /\ scrollHist' = (IF hasHeader THEN "fresh" ELSE scrollHist)
    /\ UNCHANGED <<envVars, loaded, loads, themeVars, navVars, scrollY, clockVars,
                   statusVars>>

\* the clock after adv more minutes
ClockAfter(adv) ==
    LET m == currentTime + adv
    IN  [day |-> (day + m \div MinutesPerDay) % NumDays, time |-> m % MinutesPerDay]

\* a setInterval callback: updateOpenStatus() at the clock reading of that moment
TimerTick ==
    /\ loaded
    /\ \E adv \in 0..MaxAdvance :
          /\ adv = 0 => runsAtReading < MaxRuns
          /\ runsAtReading' = (IF adv = 0 THEN runsAtReading + 1 ELSE 1)
          /\ day' = ClockAfter(adv).day
          /\ currentTime' = ClockAfter(adv).time
          /\ updateOpenStatus(ClockAfter(adv).day, ClockAfter(adv).time)
    /\ UNCHANGED <<envVars, loaded, error, loads, themeVars, navVars, scrollVars>>

----------------------------------------------------------------------------
\* Initial states: the document as parsed, before the script runs

LoadTimes == {k * (MinutesPerDay \div LoadsPerDay) : k \in 0..(LoadsPerDay - 1)}

InitLife == loaded = FALSE /\ error = FALSE /\ loads = 0

InitTheme ==
    /\ storage \in Preference \cup {unset}
    /\ osLight \in BOOLEAN
    /\ lightMode = FALSE
    /\ storedAtLoad = storage
    /\ userChoice = "none"
    /\ toggleRun = <<>>
    /\ storeAtToggle = "none"

InitNav == menuActive = FALSE /\ bodyOverflow = "" /\ lastNavEvent = "none"

InitScroll ==
    /\ scrollY \in ScrollPositions
    /\ lastScrollY = 0 /\ ticking = FALSE /\ rafQueued = 0 /\ scrolled = FALSE
    /\ headerRuns = 0 /\ scrollHist = "none"

\* a document without any of the classes the script sets
PlainStatus ==
    /\ isOpen = FALSE /\ todayIndex = -1 /\ runsAtReading = 0
    /\ statusOpen = FALSE /\ statusClosed = FALSE /\ statusText = "" /\ today = {}

\* a document whose markup carries any of those classes already
AnyStatus ==
    /\ isOpen = FALSE /\ todayIndex = -1 /\ runsAtReading = 0
    /\ IF hasStatus
       THEN statusOpen \in BOOLEAN /\ statusClosed \in BOOLEAN /\ statusText \in StatusTexts
       ELSE statusOpen = FALSE /\ statusClosed = FALSE /\ statusText = ""
    /\ today \in SUBSET Rows

\* Theme behaviours: sessions, toggles, OS changes, storage cleared
InitThemeSpec ==
    /\ hasStorage = TRUE /\ hasMatchMedia \in BOOLEAN /\ hasThemeToggle = TRUE
    /\ hasHeader = TRUE /\ hasNavMenu = TRUE /\ hasNavToggle = TRUE
    /\ hasNavClose = TRUE /\ hasStatus = TRUE /\ numRows = NumDays
    /\ InitLife /\ InitTheme /\ InitNav
    /\ scrollY = 0 /\ lastScrollY = 0 /\ ticking = FALSE /\ rafQueued = 0
    /\ scrolled = FALSE /\ headerRuns = 0 /\ scrollHist = "none"
    /\ day = 2 /\ currentTime = 0 /\ PlainStatus

NextTheme ==
    \/ PageLoad
    \/ Reload
    \/ ClickThemeToggle
    \/ OsSchemeChange
    \/ ClearStorage

SpecTheme == InitThemeSpec /\ [][NextTheme]_vars

\* Theme behaviours in which nothing but this page touches the store
NextThemeSession ==
    \/ PageLoad
    \/ Reload
    \/ ClickThemeToggle
    \/ OsSchemeChange

SpecThemeSession == InitThemeSpec /\ [][NextThemeSession]_vars

\* Theme behaviours in which the store is also cleared or written from outside
NextThemeShared ==
    \/ NextTheme
    \/ StorageChangedElsewhere

SpecThemeShared == InitThemeSpec /\ [][NextThemeShared]_vars

\* Schedule behaviours: a load at any weekday, then the minute timer
InitScheduleSpec ==
    /\ hasStorage = TRUE /\ hasMatchMedia = TRUE /\ hasThemeToggle = TRUE
    /\ hasHeader = TRUE /\ hasNavMenu = TRUE /\ hasNavToggle = TRUE
    /\ hasNavClose = TRUE /\ hasStatus \in BOOLEAN /\ numRows \in {0, NumDays}
    /\ InitLife /\ InitNav
    /\ storage = unset /\ osLight = FALSE /\ lightMode = FALSE
    /\ storedAtLoad = unset /\ userChoice = "none" /\ toggleRun = <<>>
    /\ storeAtToggle = "none"
    /\ scrollY = 0 /\ lastScrollY = 0 /\ ticking = FALSE /\ rafQueued = 0
    /\ scrolled = FALSE /\ headerRuns = 0 /\ scrollHist = "none"
    /\ day \in Weekdays /\ currentTime \in LoadTimes /\ AnyStatus

NextSchedule ==
    \/ PageLoad
    \/ TimerTick

SpecSchedule == InitScheduleSpec /\ [][NextSchedule]_vars

\* Degraded documents and hosts: any element or feature may be absent
InitPage ==
    /\ hasStorage \in BOOLEAN /\ hasMatchMedia \in BOOLEAN /\ hasThemeToggle \in BOOLEAN
    /\ hasHeader \in BOOLEAN /\ hasNavMenu \in BOOLEAN /\ hasNavToggle \in BOOLEAN
    /\ hasNavClose \in BOOLEAN /\ hasStatus \in BOOLEAN /\ numRows \in {0, NumDays}
    /\ InitLife /\ InitNav /\ InitScroll
    /\ storage = unset /\ osLight = FALSE /\ lightMode = FALSE
    /\ storedAtLoad = unset /\ userChoice = "none" /\ toggleRun = <<>>
    /\ storeAtToggle = "none"
    /\ day = 2 /\ currentTime = 0 /\ PlainStatus

NextPage ==
    \/ PageLoad
    \/ ClickThemeToggle
    \/ OsSchemeChange
    \/ ClickNavToggle
    \/ ClickNavClose
    \/ ClickNavLink
    \/ ClickElsewhere
    \/ KeyDown
    \/ Scroll
    \/ AnimationFrame

SpecPage == InitPage /\ [][NextPage]_vars

\* every element and host feature the script looks up is there
AllPresent ==
    /\ hasStorage = TRUE /\ hasMatchMedia = TRUE /\ hasThemeToggle = TRUE
    /\ hasHeader = TRUE /\ hasNavMenu = TRUE /\ hasNavToggle = TRUE
    /\ hasNavClose = TRUE /\ hasStatus = TRUE /\ numRows = NumDays

\* Menu and scroll behaviours on the complete document
InitUI ==
    /\ AllPresent
    /\ InitLife /\ InitNav /\ InitScroll
    /\ storage = unset /\ osLight = FALSE /\ lightMode = FALSE
    /\ storedAtLoad = unset /\ userChoice = "none" /\ toggleRun = <<>>
    /\ storeAtToggle = "none"
    /\ day = 2 /\ currentTime = 0 /\ PlainStatus

NextUI ==
    \/ PageLoad
    \/ ClickNavToggle
    \/ ClickNavClose
    \/ ClickNavLink
    \/ ClickElsewhere
    \/ KeyDown
    \/ Scroll
    \/ AnimationFrame

SpecUI == InitUI /\ [][NextUI]_vars

\* the browser keeps delivering animation frames while a callback is queued
SpecUIFair == SpecUI /\ WF_vars(AnimationFrame)

----------------------------------------------------------------------------
\* Properties

\* C1: after updateOpenStatus has run, for every weekday and every minute of
\* the day, isOpen is true if and only if the schedule has a non-null interval
\* for the weekday and open <= now < close.
C1_IsOpenIffWithinInterval ==
    loaded =>
        (isOpen <=> /\ schedule[day] # null
                    /\ schedule[day].open <= currentTime
                    /\ currentTime < schedule[day].close)

\* the status was computed open one minute before Thursday's close
C1_Witness ==
    loaded /\ day = 4 /\ currentTime = 16 * 60 + 59 /\ isOpen

\* C2: after a load that found the store empty, and with no toggle by the
\* user, every OS colour-scheme change is re-applied: the light-mode flag
\* follows the new OS signal.
C2_OsChangeReapplied ==
    [][(/\ loaded /\ hasMatchMedia
        /\ storedAtLoad = unset /\ userChoice = "none"
        /\ osLight' # osLight)
       => (lightMode' = osLight')]_vars

\* C3: once the user has toggled, and until storage is cleared, an OS
\* colour-scheme change changes neither the applied nor the stored preference.
C3_ChoiceOverridesOs ==
    [][(userChoice \in Preference /\ osLight' # osLight)
       => (lightMode' = lightMode /\ storage' = storage)]_vars

\* the user chose dark in this session and the OS then changed to light
C3_Witness ==
    /\ loaded /\ loads = 1 /\ userChoice = "dark" /\ toggleRun = <<>>
    /\ osLight /\ ~lightMode /\ storage = "dark"

\* C4: whatever elements and host features are absent, initialisation and
\* every event handler complete without raising an error.
C4_NoUncaughtError == ~error

\* C5: a step that applies theme p (applyTheme(p): flag set, p stored) leaves
\* the store such that getSavedTheme() returns p, whatever the OS signal.
C5_RoundTrip ==
    [][\A p \in Preference :
          applyTheme(p) => getSavedTheme(storage', hasMatchMedia', osLight') = p]_vars

\* light was written by a toggle while the OS signal reports dark
C5_Witness ==
    /\ loaded /\ userChoice = "light" /\ storage = "light" /\ ~osLight
    /\ Len(toggleRun) > 0

\* C6: a page load that follows a toggle by the user (storage retained)
\* applies the theme the user chose, whatever the OS signal is at that load.
C6_ChoicePersists ==
    [][(~loaded /\ loaded' /\ userChoice \in Preference)
       => (lightMode' <=> userChoice = "light")]_vars

\* a later session shows the chosen light theme although the OS reports dark
C6_Witness ==
    /\ loaded /\ loads >= 2 /\ userChoice = "light" /\ toggleRun = <<>>
    /\ ~osLight /\ lightMode

\* C7: after two consecutive toggleTheme calls the light-mode flag is what it
\* was before the first of them.
C7_ToggleTwiceRestores ==
    Len(toggleRun) = 2 => lightMode = toggleRun[1]

\* two consecutive toggles were made from the light theme
C7_Witness ==
    Len(toggleRun) = 2 /\ toggleRun[1] /\ lightMode

\* C8: the theme the load reads with getSavedTheme (and then stores) is the
\* stored value when there is one, else light when matchMedia exists and
\* reports light, else dark.
C8_GetSavedTheme ==
    [][(~loaded /\ loaded')
       => /\ (storage # unset => storage' = storage)
          /\ (storage = unset /\ hasMatchMedia /\ osLight => storage' = "light")
          /\ (storage = unset /\ ~(hasMatchMedia /\ osLight) => storage' = "dark")]_vars

\* a load with nothing stored and no matchMedia read dark although the OS is light
C8_Witness ==
    /\ loaded /\ storedAtLoad = unset /\ ~hasMatchMedia /\ osLight
    /\ storage = "dark" /\ userChoice = "none"

\* C9: after updateOpenStatus has run on a list of seven rows, exactly one row
\* carries 'today', the row at todayIndex.
C9_ExactlyTodayRowMarked ==
    (loaded /\ numRows = NumDays) =>
        /\ todayIndex \in Rows
        /\ today = {todayIndex}
        /\ Cardinality(today) = 1

\* on a Sunday the last row, and only it, is marked
C9_Witness ==
    loaded /\ numRows = NumDays /\ day = 0 /\ today = {6}

\* C10: dayMapping is (weekday + 6) % 7, a bijection on 0..6 with Monday at 0
\* and Sunday at 6, and it is the index updateOpenStatus uses.
C10_DayMapping ==
    /\ \A d \in Weekdays : dayMapping[d + 1] = (d + 6) % 7
    /\ \A d1, d2 \in Weekdays : dayMapping[d1 + 1] = dayMapping[d2 + 1] => d1 = d2
    /\ {dayMapping[d + 1] : d \in Weekdays} = Weekdays
    /\ dayMapping[1 + 1] = 0
    /\ dayMapping[0 + 1] = 6
    /\ (loaded => todayIndex = (day + 6) % 7)

\* updateOpenStatus ran on a Monday and used index 0
C10_Witness ==
    loaded /\ day = 1 /\ todayIndex = 0

\* C11: on Sunday (0) and Monday (1) the computed isOpen is false at every
\* minute of the day.
C11_ClosedSundayMonday ==
    (loaded /\ day \in {0, 1}) => ~isOpen

\* the status was computed closed on a Monday at 10:00
C11_Witness ==
    loaded /\ day = 1 /\ currentTime = 10 * 60 /\ ~isOpen

\* C12: Tue/Wed/Fri are open from 09:00 (inclusive) to 19:00 (exclusive),
\* Thu/Sat from 09:00 (inclusive) to 17:00 (exclusive): closed at 08:59, open
\* at 09:00, open one minute before close, closed at the close minute.
C12_HoursAndBoundaries ==
    loaded =>
        /\ (day \in {2, 3, 4, 5, 6} /\ currentTime = 8 * 60 + 59) => ~isOpen
        /\ (day \in {2, 3, 4, 5, 6} /\ currentTime = 9 * 60) => isOpen
        /\ (day \in {2, 3, 5} /\ currentTime = 18 * 60 + 59) => isOpen
        /\ (day \in {2, 3, 5} /\ currentTime = 19 * 60) => ~isOpen
        /\ (day \in {4, 6} /\ currentTime = 16 * 60 + 59) => isOpen
        /\ (day \in {4, 6} /\ currentTime = 17 * 60) => ~isOpen

\* the status was computed closed on a Thursday at 17:00
C12_Witness ==
    loaded /\ day = 4 /\ currentTime = 17 * 60 /\ ~isOpen

\* C13: scroll events are coalesced through ticking: at most one updateHeader
\* callback is queued at any time, ticking is true exactly when one is queued,
\* and an animation frame runs updateHeader at most once.
C13_ScrollCoalesced ==
    /\ rafQueued <= 1
    /\ ticking <=> (rafQueued = 1)
    /\ headerRuns <= 1

\* a scroll event arrived while a callback from an earlier one is still queued,
\* after an earlier frame ran updateHeader once
C13_Witness ==
    /\ loaded /\ ticking /\ rafQueued = 1 /\ headerRuns = 1
    /\ scrollHist = "stale" /\ scrollY # lastScrollY

\* C14: recomputation is idempotent: a run of updateOpenStatus at the clock
\* reading of the previous run changes neither the indicator nor the row marks,
\* and after every run the indicator and the marks are a function of the clock
\* reading of that run alone.
C14_TimerIdempotent ==
    /\ [](loaded =>
            /\ isOpen = computeIsOpen(day, currentTime)
            /\ hasStatus => /\ statusOpen = computeIsOpen(day, currentTime)
                            /\ statusClosed = ~computeIsOpen(day, currentTime)
                            /\ statusText = (IF computeIsOpen(day, currentTime)
                                             THEN "Aberto agora" ELSE "Fechado")
            /\ today = {index \in Rows : index = dayMapping[day + 1]})
    /\ [][(loaded /\ loaded' /\ day' = day /\ currentTime' = currentTime)
          => UNCHANGED <<isOpen, todayIndex, statusOpen, statusClosed, statusText,
                         today>>]_vars

\* updateOpenStatus ran a second time at a reading within opening hours
C14_Witness ==
    /\ loaded /\ runsAtReading >= 2 /\ hasStatus /\ numRows = NumDays
    /\ isOpen /\ statusOpen /\ ~statusClosed

\* C16: after every run of updateOpenStatus with an indicator present, the
\* indicator carries exactly one of 'open' and 'closed': 'open' with text
\* 'Aberto agora' when isOpen, 'closed' with text 'Fechado' otherwise.
C16_IndicatorOneClass ==
    (loaded /\ hasStatus) =>
        /\ statusOpen # statusClosed
        /\ isOpen => (statusOpen /\ statusText = "Aberto agora")
        /\ ~isOpen => (statusClosed /\ statusText = "Fechado")

\* the indicator shows open, and only open, at a Tuesday 09:00
C16_Witness ==
    /\ loaded /\ hasStatus /\ day = 2 /\ currentTime = 9 * 60
    /\ statusOpen /\ ~statusClosed /\ statusText = "Aberto agora"

\* C15: toggleTheme works from the light-mode flag, not from the store:
\* whatever the store holds, a toggle inverts the flag and stores the theme
\* the flag then shows.
C15_ToggleFromVisualState ==
    [][ClickThemeToggle
       => /\ lightMode' = ~lightMode
          /\ storage' = (IF lightMode' THEN "light" ELSE "dark")]_vars

\* the page was dark while the store said light; the toggle made it light
C15_Witness ==
    /\ loaded /\ Len(toggleRun) > 0 /\ toggleRun[Len(toggleRun)] = FALSE
    /\ storeAtToggle = "light" /\ lightMode /\ storage = "light"

\* C17: while only the page itself writes the store, after initialisation the
\* store always holds a theme and the light-mode flag is set exactly when the
\* stored theme is light.
C17_StoredMatchesApplied ==
    loaded => /\ storage \in Preference
              /\ lightMode <=> (storage = "light")

\* in the first session, after a toggle to light and a later OS change to dark
C17_Witness ==
    /\ loaded /\ loads = 1 /\ userChoice = "light" /\ toggleRun = <<>>
    /\ ~osLight /\ lightMode /\ storage = "light"

C19_NoLostUpdate ==
    /\ []((loaded /\ scrollHist # "none" /\ ~ticking) =>
             /\ scrolled <=> (scrollY > ScrollThreshold)
             /\ lastScrollY = scrollY)
    /\ (scrollHist = "stale") ~> (scrollHist = "fresh")

\* updateHeader ran after the last scroll event, which went past the threshold
C19_Witness ==
    /\ loaded /\ scrollHist = "fresh" /\ ~ticking /\ rafQueued = 0
    /\ scrollY = ScrollThreshold + 1 /\ scrolled /\ lastScrollY = scrollY

====
